---- MODULE Spec2Model ----
(***************************************************************************)
(* Model of the two agent scripts of the repository:                       *)
(*   src/code-review/reviewer.py   CodeReviewer.forward                    *)
(*   src/docqa/qa.py               DocQA.forward, resolve_file_content     *)
(*                                                                         *)
(* One behaviour is one invocation of one forward().  An action is the     *)
(* code that runs between two awaits; the model calls that are in flight   *)
(* complete in any order.  Text is a sequence of one-character strings so  *)
(* that str.split and " ".join are computed, not assumed.                  *)
(***************************************************************************)
EXTENDS Integers, Sequences, FiniteSets, TLC

(***************************************************************************)
(* Bounds of the model.                                                    *)
(***************************************************************************)
\* longest diff / text, in characters
MaxDiffLen == 5
\* MAX_WORDS_PER_CHUNK is 8000 in the source (reviewer.py:48); the model
\* runs forward for every chunk size 1..MaxChunkWords instead
MaxChunkWords == 2
\* most str/bytes values found in the payload under the text keys
MaxPayloadVals == 2

VARIABLES
    agent,                 \* which forward() runs: "none", "CodeReviewer", "DocQA", "split"
    pc,                    \* position of forward(): the await it is suspended at
    MAX_WORDS_PER_CHUNK,   \* reviewer.py:48, 0 until forward assigns it
    git,                   \* outcome of subprocess.run(["git","show","HEAD"])
    diff_content,          \* reviewer.py:30 process.stdout
    chunks,                \* reviewer.py:50
    tasks,                 \* reviewer.py:90 one summarize_chunk task per chunk
    completed,             \* indices of the tasks in the order they completed
    chunk_summaries,       \* reviewer.py:95
    request,               \* DocQA: what forward() was called with and its environment
    document_text,         \* qa.py:181
    calls,                 \* every prompt handed to self.llm, in issue order
    responses,             \* how each call of calls ended, "pending" until it has
    output                 \* the AgentOutput returned, <<>> while none

vars == <<agent, pc, MAX_WORDS_PER_CHUNK, git, diff_content, chunks, tasks,
          completed, chunk_summaries, request, document_text, calls, responses,
          output>>

(***************************************************************************)
(* Python values.  None is the empty tuple and a present value a 1-tuple,  *)
(* so that optional fields stay comparable.                                *)
(***************************************************************************)
None == <<>>

Some(v) == <<v>>

\* the characters text is made of; " " and "\n" are whitespace to str.split
Chars == {"a", "b", " ", "\n"}

IsSpace(c) == c \in {" ", "\n"}

Texts(n) == UNION {[1..k -> Chars] : k \in 0..n}

(***************************************************************************)
(* str.split(): the maximal runs of non-whitespace characters, in order.   *)
(***************************************************************************)
RECURSIVE SplitFrom(_, _, _, _)
SplitFrom(text, i, cur, acc) ==
    IF i > Len(text)
    THEN IF cur = <<>> THEN acc ELSE Append(acc, cur)
    ELSE IF IsSpace(text[i])
         THEN SplitFrom(text, i + 1, <<>>,
                        IF cur = <<>> THEN acc ELSE Append(acc, cur))
         ELSE SplitFrom(text, i + 1, Append(cur, text[i]), acc)

StrSplit(text) == SplitFrom(text, 1, <<>>, <<>>)

(***************************************************************************)
(* " ".join(words)                                                         *)
(***************************************************************************)
RECURSIVE SpaceJoin(_)
SpaceJoin(words) ==
    IF words = <<>> THEN <<>>
    ELSE IF Len(words) = 1 THEN words[1]
    ELSE words[1] \o <<" ">> \o SpaceJoin(Tail(words))

(***************************************************************************)
(* range(start, stop, step) and the slice seq[lo:hi], with 0-based bounds  *)
(* that Python clips to the sequence.                                      *)
(***************************************************************************)
RECURSIVE PyRange(_, _, _)
PyRange(start, stop, step) ==
    IF start >= stop THEN <<>>
    ELSE <<start>> \o PyRange(start + step, stop, step)

Min(a, b) == IF a < b THEN a ELSE b

PySliceOffByOne(seq, lo, hi) == SubSeq(seq, lo + 1, Min(hi, Len(seq)) - 1)

PySlice(seq, lo, hi) == SubSeq(seq, lo + 1, Min(hi, Len(seq)))

(***************************************************************************)
(* reviewer.py:39-46                                                       *)
(***************************************************************************)
_split_into_chunks(text, max_words) ==
    LET words == StrSplit(text)
        starts == PyRange(0, Len(words), max_words)
    IN  IF words = <<>> THEN <<>>
        ELSE [k \in 1..Len(starts) |->
                 SpaceJoin(PySlice(words, starts[k], starts[k] + max_words))]

(***************************************************************************)
(* The external framework: AgentOutput and the language-model client.      *)
(* AgentOutput(input_id, result, error): a field not passed is None.  The  *)
(* input id is the same in every output of an invocation and is left out.  *)
(***************************************************************************)
AgentOutput(result, error) == [result |-> result, error |-> error]

\* how an awaited self.llm(...) can end: an OpenAI-like dict, a plain str,
\* some other object, or an exception.  The exception is an Exception; a
\* BaseException that is none (CancelledError, KeyboardInterrupt) is not
\* among the outcomes
LLMOutcomes == {"dict", "str", "obj", "raise"}

\* the text the model wrote for a prompt
Completion(prompt) == [completion_of |-> prompt]

LLMException == [kind |-> "exception", msg |-> "model call failed"]

IsException(res) == res.kind = "exception"

\* reviewer.py:61-70 and 81-84, 114-117: resp['choices'][0]['message']['content'],
\* else resp itself when it is a str, else str(resp)
ReviewText(prompt, shape) ==
    CASE shape = "dict" -> [kind |-> "text", text |-> Completion(prompt)]
      [] shape = "str"  -> [kind |-> "text", text |-> Completion(prompt)]
      [] shape = "obj"  -> [kind |-> "text", text |-> [str_of |-> Completion(prompt)]]

(***************************************************************************)
(* Prompts of the reviewer (reviewer.py:53-58, 75-79, 102-110).  A prompt  *)
(* is its fixed wording, named by kind, and the values spliced into it.    *)
(***************************************************************************)
single_prompt(diff) == [kind |-> "single", diff |-> diff]

part_prompt(idx, total, chunk_text) ==
    [kind |-> "part", idx |-> idx, total |-> total, chunk_text |-> chunk_text]

consolidation_prompt(total, summaries) ==
    [kind |-> "consolidation", total |-> total,
     parts |-> [n \in 1..Len(summaries) |->
                   [part |-> summaries[n].part, summary |-> summaries[n].summary]]]

(***************************************************************************)
(* Error strings of the reviewer: the fixed wording and what is formatted  *)
(* into it.                                                                *)
(***************************************************************************)
GitMissingError == [msg |-> "Git is not installed or not in the system's PATH."]

GitFailedError(stderr) == [msg |-> "Git command failed: ", detail |-> stderr]

ChunkError(i, res) ==
    [msg |-> "Failed to get summary for chunk ", chunk |-> i, detail |-> res.msg]

ConsolidateError(e) == [msg |-> "Failed to consolidate summaries: ", detail |-> e.msg]

ReviewError(e) == [msg |-> "Failed to get review from LLM: ", detail |-> e.msg]

NoChangesResult == [summary |-> "No changes found in the last commit."]

(***************************************************************************)
(* reviewer.py:22-34: subprocess.run ends normally, or raises              *)
(* FileNotFoundError (no git), CalledProcessError (non-zero exit), or an   *)
(* OSError that is neither (git found but not executable), which no except *)
(* clause of forward names.                                                *)
(***************************************************************************)
GitOutcomes == {"ok", "FileNotFoundError", "CalledProcessError", "PermissionError"}

\* reviewer.py:36  not diff_content
NeverEmpty(text) == FALSE

IsEmptyText(text) == text = <<>>

\* reviewer.py:73  len(chunks) <= 1
IsSmallDiffStrict(cs) == Len(cs) < 1

IsSmallDiff(cs) == Len(cs) <= 1

\* reviewer.py:90 a task that has not run yet
NewTask == [state |-> "created", call |-> 0, value |-> [kind |-> "pending"]]

\* reviewer.py:93 asyncio.gather(*tasks, return_exceptions=True): the value
\* or the exception of every task, in the order of the tasks
GatherByCompletion(ts, order) == [i \in 1..Len(ts) |-> ts[order[i]].value]

Gather(ts, order) == [i \in 1..Len(ts) |-> ts[i].value]

\* reviewer.py:96-98: the results, in order, that are exceptions
FailedIndices(results) == {i \in 1..Len(results) : IsException(results[i])}

LastFailed(results) ==
    CHOOSE i \in FailedIndices(results) : \A j \in FailedIndices(results) : i >= j

FirstFailed(results) ==
    CHOOSE i \in FailedIndices(results) : \A j \in FailedIndices(results) : i <= j

\* reviewer.py:93 gather returns when every task has returned or raised
AnyComplete(ts) == \E i \in 1..Len(ts) : ts[i].state \in {"done", "raised"}

AllComplete(ts) == \A i \in 1..Len(ts) : ts[i].state \in {"done", "raised"}

\* reviewer.py:95-99 the summaries of the results before index n
Summaries(results, n) ==
    [i \in 1..(n - 1) |-> [part |-> i, summary |-> results[i]]]

(***************************************************************************)
(* CodeReviewer.forward, from the call to its return or first await.       *)
(***************************************************************************)
\* reviewer.py:31-34 and the propagating OSError
CR_GitFails ==
    /\ agent = "none" /\ pc = "idle"
    /\ \E g \in GitOutcomes \ {"ok"} :
        /\ git' = g
        /\ CASE g = "FileNotFoundError" ->
                  /\ output' = AgentOutput(None, Some(GitMissingError))
                  /\ pc' = "returned"
             [] g = "CalledProcessError" ->
                  /\ output' = AgentOutput(None, Some(GitFailedError("stderr")))
                  /\ pc' = "returned"
             [] OTHER ->
                  /\ output' = output
                  /\ pc' = "raised"
    /\ agent' = "CodeReviewer"
    /\ UNCHANGED <<MAX_WORDS_PER_CHUNK, diff_content, chunks, tasks, completed,
                   chunk_summaries, request, document_text, calls, responses>>

\* reviewer.py:36-37
CR_EmptyDiff ==
    /\ agent = "none" /\ pc = "idle"
    /\ \E d \in Texts(MaxDiffLen) :
        /\ IsEmptyText(d)
        /\ diff_content' = d
    /\ git' = "ok"
    /\ output' = AgentOutput(Some(NoChangesResult), None)
    /\ pc' = "returned"
    /\ agent' = "CodeReviewer"
    /\ UNCHANGED <<MAX_WORDS_PER_CHUNK, chunks, tasks, completed,
                   chunk_summaries, request, document_text, calls, responses>>

\* reviewer.py:38-80: at most one chunk, the single request is issued
CR_SingleRequest ==
    /\ agent = "none" /\ pc = "idle"
    /\ \E d \in Texts(MaxDiffLen), w \in 1..MaxChunkWords :
        LET cs == _split_into_chunks(d, w) IN
        /\ ~IsEmptyText(d)
        /\ IsSmallDiff(cs)
        /\ diff_content' = d
        /\ MAX_WORDS_PER_CHUNK' = w
        /\ chunks' = cs
        /\ calls' = Append(calls, single_prompt(d))
        /\ responses' = Append(responses, "pending")
    /\ git' = "ok"
    /\ pc' = "await_single"
    /\ agent' = "CodeReviewer"
    /\ UNCHANGED <<tasks, completed, chunk_summaries, request, document_text,
                   output>>

\* reviewer.py:80-85 and 125-126: the single request raises and the outer
\* except turns the exception into an error
CR_SingleReturnUncaught ==
    /\ agent = "CodeReviewer" /\ pc = "await_single"
    /\ \E shape \in LLMOutcomes :
        /\ responses' = [responses EXCEPT ![Len(calls)] = shape]
        /\ IF shape = "raise"
           THEN output' = output /\ pc' = "raised"
           ELSE /\ output' = AgentOutput(
                     Some([content |-> ReviewText(calls[Len(calls)], shape).text]),
                     None)
                /\ pc' = "returned"
    /\ UNCHANGED <<agent, MAX_WORDS_PER_CHUNK, git, diff_content, chunks, tasks,
                   completed, chunk_summaries, request, document_text, calls>>

\* reviewer.py:80-85 and 125-126: the single request returns or raises
CR_SingleReturn ==
    /\ agent = "CodeReviewer" /\ pc = "await_single"
    /\ \E shape \in LLMOutcomes :
        /\ responses' = [responses EXCEPT ![Len(calls)] = shape]
        /\ output' = IF shape = "raise"
                     THEN AgentOutput(None, Some(ReviewError(LLMException)))
                     ELSE AgentOutput(
                            Some([content |->
                                    ReviewText(calls[Len(calls)], shape).text]),
                            None)
    /\ pc' = "returned"
    /\ UNCHANGED <<agent, MAX_WORDS_PER_CHUNK, git, diff_content, chunks, tasks,
                   completed, chunk_summaries, request, document_text, calls>>

\* reviewer.py:38-93: several chunks, one task per chunk is created and
\* forward suspends in gather
CR_FanOut ==
    /\ agent = "none" /\ pc = "idle"
    /\ \E d \in Texts(MaxDiffLen), w \in 1..MaxChunkWords :
        LET cs == _split_into_chunks(d, w) IN
        /\ ~IsEmptyText(d)
        /\ ~IsSmallDiff(cs)
        /\ diff_content' = d
        /\ MAX_WORDS_PER_CHUNK' = w
        /\ chunks' = cs
        /\ tasks' = [i \in 1..Len(cs) |-> NewTask]
    /\ git' = "ok"
    /\ pc' = "gather"
    /\ agent' = "CodeReviewer"
    /\ UNCHANGED <<completed, chunk_summaries, request, document_text, calls,
                   responses, output>>

\* reviewer.py:52-59: task i runs to its await of self.llm; the event loop
\* starts the tasks in the order they were created
TaskStart(i) ==
    /\ agent = "CodeReviewer" /\ pc = "gather"
    /\ i \in 1..Len(tasks)
    /\ tasks[i].state = "created"
    /\ \A j \in 1..(i - 1) : tasks[j].state # "created"
    /\ calls' = Append(calls, part_prompt(i, Len(chunks), chunks[i]))
    /\ responses' = Append(responses, "pending")
    /\ tasks' = [tasks EXCEPT ![i].state = "awaiting", ![i].call = Len(calls) + 1]
    /\ UNCHANGED <<agent, pc, MAX_WORDS_PER_CHUNK, git, diff_content, chunks,
                   completed, chunk_summaries, request, document_text, output>>

\* reviewer.py:59-70: the model call of task i returns or raises
TaskComplete(i) ==
    /\ agent = "CodeReviewer" /\ pc = "gather"
    /\ i \in 1..Len(tasks)
    /\ tasks[i].state = "awaiting"
    /\ \E shape \in LLMOutcomes :
        /\ responses' = [responses EXCEPT ![tasks[i].call] = shape]
        /\ tasks' = [tasks EXCEPT ![i] =
                      IF shape = "raise"
                      THEN [@ EXCEPT !.state = "raised", !.value = LLMException]
                      ELSE [@ EXCEPT !.state = "done",
                                     !.value = ReviewText(calls[tasks[i].call], shape)]]
    /\ completed' = Append(completed, i)
    /\ UNCHANGED <<agent, pc, MAX_WORDS_PER_CHUNK, git, diff_content, chunks,
                   chunk_summaries, request, document_text, calls, output>>

\* reviewer.py:93-98: gather returns once every task has completed; a result
\* that is an exception ends forward with the error of that chunk
CR_ChunkFailed ==
    /\ agent = "CodeReviewer" /\ pc = "gather"
    /\ AllComplete(tasks)
    /\ LET results == Gather(tasks, completed) IN
        /\ FailedIndices(results) # {}
        /\ output' = AgentOutput(None,
                        Some(ChunkError(FirstFailed(results),
                                        results[FirstFailed(results)])))
        /\ chunk_summaries' = Summaries(results, FirstFailed(results))
    /\ pc' = "returned"
    /\ UNCHANGED <<agent, MAX_WORDS_PER_CHUNK, git, diff_content, chunks, tasks,
                   completed, request, document_text, calls, responses>>

\* reviewer.py:93-113: no result is an exception; the summaries are
\* collected and the consolidation request is issued
CR_Consolidate ==
    /\ agent = "CodeReviewer" /\ pc = "gather"
    /\ AllComplete(tasks)
    /\ LET results == Gather(tasks, completed) IN
        /\ FailedIndices(results) = {}
        /\ chunk_summaries' = Summaries(results, Len(results) + 1)
        /\ calls' = Append(calls,
                       consolidation_prompt(Len(chunks),
                                            Summaries(results, Len(results) + 1)))
        /\ responses' = Append(responses, "pending")
    /\ pc' = "await_final"
    /\ UNCHANGED <<agent, MAX_WORDS_PER_CHUNK, git, diff_content, chunks, tasks,
                   completed, request, document_text, output>>

\* reviewer.py:113-124: the consolidation request returns or raises
CR_FinalReturn ==
    /\ agent = "CodeReviewer" /\ pc = "await_final"
    /\ \E shape \in LLMOutcomes :
        /\ responses' = [responses EXCEPT ![Len(calls)] = shape]
        /\ output' = IF shape = "raise"
                     THEN AgentOutput(None, Some(ConsolidateError(LLMException)))
                     ELSE AgentOutput(
                            Some([parts |-> chunk_summaries,
                                  final_review |->
                                      ReviewText(calls[Len(calls)], shape).text]),
                            None)
    /\ pc' = "returned"
    /\ UNCHANGED <<agent, MAX_WORDS_PER_CHUNK, git, diff_content, chunks, tasks,
                   completed, chunk_summaries, request, document_text, calls>>

(***************************************************************************)
(* DocQA (src/docqa/qa.py).  A str is a tuple of tokens here, the empty    *)
(* str the empty tuple.                                                    *)
(***************************************************************************)
EmptyStr == <<>>

\* truth of an optional str: neither None nor ""
Truthy(opt) == opt # None /\ opt[1] # ""

\* a file reference: its URL scheme ("" for a plain path) and the suffix of
\* its path
FileUris ==
    [scheme : {"", "file"}, ext : {".pdf", ".md", ".bin"}]
    \cup [scheme : {"http"},
          ext : {".pdf", ".txt", ".md", ".markdown", ".html", ""}]
    \cup [scheme : {"https"}, ext : {".pdf", ""}]
    \cup [scheme : {"ftp"}, ext : {".md"}]

\* what the bytes behind a reference are: nothing that can be opened, a PDF,
\* UTF-8 text, bytes that are valid UTF-16 but not UTF-8, bytes that only
\* latin-1 decodes, or no bytes at all
Contents == {"missing", "pdf", "utf8", "utf16", "latin1", "empty"}

\* Content-Type headers of a response ("" when the header is absent)
ContentTypes == {"application/pdf", "text/plain; charset=utf-8",
                 "text/html; charset=klingon", "application/x-markdown",
                 "application/octet-stream", ""}

\* qa.py:77  "application/pdf" in content_type
HasPdfType(ct) == ct \in {"application/pdf"}

\* qa.py:79  content_type.startswith("text/") or "markdown" in content_type
HasTextType(ct) ==
    ct \in {"text/plain; charset=utf-8", "text/html; charset=klingon",
            "application/x-markdown"}

\* qa.py:99-103  the charset named by the header, None without one
HeaderCharset(ct) ==
    CASE ct = "text/plain; charset=utf-8" -> Some("utf-8")
      [] ct = "text/html; charset=klingon" -> Some("klingon")
      [] OTHER -> None

\* bytes.decode(enc): the text, or None when decoding raises (an unknown
\* codec or bytes the codec rejects)
Decode(content, enc) ==
    CASE content = "empty" -> Some(EmptyStr)
      [] enc = "utf-8"   -> IF content = "utf8" THEN Some(<<content, enc>>) ELSE None
      [] enc = "utf-16"  -> IF content = "utf16" THEN Some(<<content, enc>>) ELSE None
      [] enc = "latin-1" -> Some(<<content, enc>>)
      [] OTHER -> None

\* qa.py:34-39 and 104-109: the first encoding of the list that decodes
RECURSIVE DecodeFirst(_, _)
DecodeFirst(content, encs) ==
    IF encs = <<>> THEN EmptyStr
    ELSE IF Decode(content, encs[1]) # None THEN Decode(content, encs[1])[1]
    ELSE DecodeFirst(content, Tail(encs))

\* qa.py:26-41
_read_text_file(content) ==
    IF content = "missing" THEN EmptyStr
    ELSE IF Decode(content, "utf-8") # None THEN Decode(content, "utf-8")[1]
    ELSE DecodeFirst(content, <<"utf-8", "utf-16", "latin-1">>)

\* qa.py:43-49
_parse_pdf(content) ==
    IF content = "pdf" THEN <<"pdf", "markdown">> ELSE EmptyStr

\* qa.py:64-114, the http(s) branch
ResolveHttpAnyType(uri, env) ==
    IF env.fetch = "fail" THEN EmptyStr
    ELSE DecodeFirst(env.content, <<"utf-8", "latin-1">>)

ResolveHttp(uri, env) ==
    LET ext_pdf  == uri.ext = ".pdf"
        ext_text == uri.ext \in {".txt", ".md", ".markdown"}
        by_ext   == ext_pdf \/ ext_text
        want_pdf  == ext_pdf \/ (~by_ext /\ HasPdfType(env.content_type))
        want_text == ext_text \/ (~by_ext /\ ~HasPdfType(env.content_type)
                                          /\ HasTextType(env.content_type))
        charset == IF HeaderCharset(env.content_type) = None THEN <<>>
                   ELSE HeaderCharset(env.content_type)
    IN  IF env.fetch = "fail" THEN EmptyStr
        ELSE IF want_pdf THEN _parse_pdf(env.content)
        ELSE IF want_text
             THEN DecodeFirst(env.content, charset \o <<"utf-8", "latin-1">>)
        ELSE EmptyStr

\* qa.py:14-122
resolve_file_content(file_uri, env) ==
    IF file_uri = None THEN EmptyStr
    ELSE LET uri == file_uri[1] IN
         IF uri.scheme = "file"
         THEN IF uri.ext = ".pdf" THEN _parse_pdf(env.content)
              ELSE _read_text_file(env.content)
         ELSE IF uri.scheme \in {"http", "https"}
         THEN ResolveHttp(uri, env)
         ELSE IF uri.ext = ".pdf" THEN _parse_pdf(env.content)
              ELSE _read_text_file(env.content)

\* the environments a reference can meet; nothing is read without one
NoEnv == [content |-> "missing", fetch |-> "fail", content_type |-> ""]

EnvsFor(file_uri) ==
    IF file_uri = None THEN {NoEnv}
    ELSE IF file_uri[1].scheme \in {"http", "https"}
    THEN {NoEnv} \cup [content : Contents \ {"missing"}, fetch : {"ok"},
                       content_type : ContentTypes]
    ELSE [content : Contents, fetch : {"fail"}, content_type : {""}]

\* the values the payload holds under "input", "stdin", "content", "data",
\* "text", in that order (absent keys left out): a value that is neither str
\* nor bytes, a str, or bytes that are or are not valid UTF-8
PayloadValues ==
    {[type |-> "int",   valid |-> TRUE,  text |-> EmptyStr],
     [type |-> "str",   valid |-> TRUE,  text |-> EmptyStr],
     [type |-> "str",   valid |-> TRUE,  text |-> <<"piped text">>],
     [type |-> "bytes", valid |-> TRUE,  text |-> <<"piped bytes">>],
     [type |-> "bytes", valid |-> FALSE, text |-> EmptyStr]}

PayloadTexts == UNION {[1..k -> PayloadValues] : k \in 0..MaxPayloadVals}

\* qa.py:142-147: the first str or bytes value; decoding can raise
RECURSIVE _get_payload_text(_)
_get_payload_text(vals) ==
    IF vals = <<>> THEN [raised |-> FALSE, text |-> EmptyStr]
    ELSE IF vals[1].type \in {"str", "bytes"}
         THEN [raised |-> ~vals[1].valid, text |-> vals[1].text]
         ELSE _get_payload_text(Tail(vals))

\* qa.py:150  question.strip().lower()
StripLower(q) == IF q = " TL;DR" THEN "tl;dr" ELSE q

\* qa.py:149-165
_build_prompt(question, text) ==
    [kind |-> "docqa",
     instruction |-> IF StripLower(question) \in {"summarize", "summary", "tl;dr"}
                     THEN "summary" ELSE "answer",
     document |-> text, question |-> question]

MissingQuestionError == [msg |-> "Missing required argument: -q/--question"]

NoDocumentError ==
    [msg |-> "No document provided. Use -f/--file or pipe content via stdin."]

CannotParseResult == [content |-> "Cannot parse the document content"]

DocQAError(e) == [msg |-> "Failed to get response from LLM: ", detail |-> e]

\* what forward can be called with
Requests ==
    [question_payload : {None, Some(""), Some("what")},
     question_args    : {None, Some(" TL;DR")},
     file_payload     : {None} \cup {Some(u) : u \in FileUris},
     file_args        : {None, Some([scheme |-> "", ext |-> ".md"])},
     payload_texts    : PayloadTexts,
     env              : {NoEnv}]

\* qa.py:171  payload.get("question") or args_fallback.get("question")
Question(r) ==
    IF Truthy(r.question_payload) THEN r.question_payload ELSE r.question_args

\* qa.py:172  payload.get("file") or args_fallback.get("file")
FilePath(r) == IF r.file_payload # None THEN r.file_payload ELSE r.file_args

\* qa.py:181-183: the payload text, else the resolved file
DocumentText(r) ==
    IF _get_payload_text(r.payload_texts).text # EmptyStr
    THEN _get_payload_text(r.payload_texts).text
    ELSE resolve_file_content(FilePath(r), r.env)

\* the environment forward reads for a request: the file is looked at only
\* when the payload holds no text
EnvsRead(r) ==
    IF _get_payload_text(r.payload_texts).text # EmptyStr THEN {NoEnv}
    ELSE EnvsFor(FilePath(r))

(***************************************************************************)
(* DocQA.forward, from the call to its return or its await.                *)
(***************************************************************************)
\* qa.py:174-178
DQ_MissingQuestion ==
    /\ agent = "none" /\ pc = "idle"
    /\ \E r \in Requests :
        /\ ~Truthy(Question(r))
        /\ request' = r
    /\ output' = AgentOutput(None, Some(MissingQuestionError))
    /\ pc' = "returned"
    /\ agent' = "DocQA"
    /\ UNCHANGED <<MAX_WORDS_PER_CHUNK, git, diff_content, chunks, tasks,
                   completed, chunk_summaries, document_text, calls, responses>>

\* qa.py:181 and 146: the bytes of the payload are not UTF-8, decode raises
\* and nothing in forward catches it
DQ_DecodeRaises ==
    /\ agent = "none" /\ pc = "idle"
    /\ \E r \in Requests :
        /\ Truthy(Question(r))
        /\ _get_payload_text(r.payload_texts).raised
        /\ request' = r
    /\ pc' = "raised"
    /\ agent' = "DocQA"
    /\ UNCHANGED <<MAX_WORDS_PER_CHUNK, git, diff_content, chunks, tasks,
                   completed, chunk_summaries, document_text, calls, responses,
                   output>>

\* qa.py:181-189: neither the payload nor the file gives any text
DQ_NoDocument ==
    /\ agent = "none" /\ pc = "idle"
    /\ \E r \in Requests : \E e \in EnvsRead(r) :
        LET req == [r EXCEPT !.env = e] IN
        /\ Truthy(Question(r))
        /\ ~_get_payload_text(r.payload_texts).raised
        /\ DocumentText(req) = EmptyStr
        /\ request' = req
        /\ document_text' = DocumentText(req)
    /\ output' = AgentOutput(Some(CannotParseResult), Some(NoDocumentError))
    /\ pc' = "returned"
    /\ agent' = "DocQA"
    /\ UNCHANGED <<MAX_WORDS_PER_CHUNK, git, diff_content, chunks, tasks,
                   completed, chunk_summaries, calls, responses>>

\* qa.py:181-196: there is a document, the prompt is built and the model
\* is called
DQ_Ask ==
    /\ agent = "none" /\ pc = "idle"
    /\ \E r \in Requests : \E e \in EnvsRead(r) :
        LET req == [r EXCEPT !.env = e] IN
        /\ Truthy(Question(r))
        /\ ~_get_payload_text(r.payload_texts).raised
        /\ DocumentText(req) # EmptyStr
        /\ request' = req
        /\ document_text' = DocumentText(req)
        /\ calls' = Append(calls, _build_prompt(Question(r)[1], DocumentText(req)))
        /\ responses' = Append(responses, "pending")
    /\ pc' = "await_llm"
    /\ agent' = "DocQA"
    /\ UNCHANGED <<MAX_WORDS_PER_CHUNK, git, diff_content, chunks, tasks,
                   completed, chunk_summaries, output>>

\* qa.py:194-200: the call returns or raises; a response that is not an
\* OpenAI-like dict makes the subscripting at line 197 raise inside the try
DQ_Return ==
    /\ agent = "DocQA" /\ pc = "await_llm"
    /\ \E shape \in LLMOutcomes :
        /\ responses' = [responses EXCEPT ![Len(calls)] = shape]
        /\ output' = CASE shape = "dict" ->
                           AgentOutput(
                             Some([content |-> Completion(calls[Len(calls)])]), None)
                      [] shape = "raise" ->
                           AgentOutput(None, Some(DocQAError(LLMException.msg)))
                      [] OTHER ->
                           AgentOutput(None, Some(DocQAError("TypeError")))
    /\ pc' = "returned"
    /\ UNCHANGED <<agent, MAX_WORDS_PER_CHUNK, git, diff_content, chunks, tasks,
                   completed, chunk_summaries, request, document_text, calls>>

(***************************************************************************)
(* The specification: one invocation of either forward.                    *)
(***************************************************************************)
NoRequest ==
    [question_payload |-> None, question_args |-> None, file_payload |-> None,
     file_args |-> None, payload_texts |-> <<>>, env |-> NoEnv]

Init ==
    /\ agent = "none"
    /\ pc = "idle"
    /\ MAX_WORDS_PER_CHUNK = 0
    /\ git = "not run"
    /\ diff_content = <<>>
    /\ chunks = <<>>
    /\ tasks = <<>>
    /\ completed = <<>>
    /\ chunk_summaries = <<>>
    /\ request = NoRequest
    /\ document_text = EmptyStr
    /\ calls = <<>>
    /\ responses = <<>>
    /\ output = None

Next ==
    \/ CR_GitFails
    \/ CR_EmptyDiff
    \/ CR_SingleRequest
    \/ CR_SingleReturn
    \/ CR_FanOut
    \/ \E i \in DOMAIN tasks : TaskStart(i)
    \/ \E i \in DOMAIN tasks : TaskComplete(i)
    \/ CR_ChunkFailed
    \/ CR_Consolidate
    \/ CR_FinalReturn
    \/ DQ_MissingQuestion
    \/ DQ_DecodeRaises
    \/ DQ_NoDocument
    \/ DQ_Ask
    \/ DQ_Return

Spec == Init /\ [][Next]_vars

(***************************************************************************)
(* _split_into_chunks on its own: every text up to MaxDiffLen characters   *)
(* and every chunk size up to MaxChunkWords + 1.                           *)
(***************************************************************************)
SplitInit ==
    /\ agent = "split"
    /\ pc = "idle"
    /\ MAX_WORDS_PER_CHUNK \in 1..(MaxChunkWords + 1)
    /\ git = "not run"
    /\ diff_content \in Texts(MaxDiffLen)
    /\ chunks = <<>>
    /\ tasks = <<>>
    /\ completed = <<>>
    /\ chunk_summaries = <<>>
    /\ request = NoRequest
    /\ document_text = EmptyStr
    /\ calls = <<>>
    /\ responses = <<>>
    /\ output = None

Split ==
    /\ agent = "split" /\ pc = "idle"
    /\ chunks' = _split_into_chunks(diff_content, MAX_WORDS_PER_CHUNK)
    /\ pc' = "returned"
    /\ UNCHANGED <<agent, MAX_WORDS_PER_CHUNK, git, diff_content, tasks, completed,
                   chunk_summaries, request, document_text, calls, responses,
                   output>>

SplitNext == Split

SplitSpec == SplitInit /\ [][SplitNext]_vars

(***************************************************************************)
(* Helpers of the properties.                                              *)
(***************************************************************************)
\* number of words of a text, counted at the positions where a word starts
WordStarts(text) ==
    {i \in 1..Len(text) : ~IsSpace(text[i]) /\ (i = 1 \/ IsSpace(text[i - 1]))}

WordCount(text) == Cardinality(WordStarts(text))

CeilDiv(n, w) == (n + w - 1) \div w

Reviewing == agent = "CodeReviewer"

RaisedTasks == {i \in 1..Len(tasks) : tasks[i].state = "raised"}

HasError(out) == out # None /\ out.error # None

\* the texts a review of a prompt can be, whatever the shape of the response
ReviewsOf(prompt) == {ReviewText(prompt, shape) : shape \in LLMOutcomes \ {"raise"}}

(***************************************************************************)
(* C1 as stated: whenever forward has returned and the model call of chunk *)
(* i raised, the output has no result and its error names chunk i, for     *)
(* every such i.                                                           *)
(***************************************************************************)
C1_EveryFailedChunkNamed ==
    (Reviewing /\ pc = "returned") =>
        \A i \in RaisedTasks :
            /\ output.result = None
            /\ HasError(output)
            /\ "chunk" \in DOMAIN output.error[1]
            /\ output.error[1].chunk = i

(***************************************************************************)
(* C1 amended: when the diff splits into two or more chunks and the model  *)
(* call of at least one chunk raised, forward returns an output with no    *)
(* result whose error names the lowest 1-based index among the chunks      *)
(* whose call raised, whatever the other chunk calls did.                  *)
(***************************************************************************)
C1_LowestFailedChunkNamed ==
    (Reviewing /\ pc = "returned" /\ RaisedTasks # {}) =>
        /\ output.result = None
        /\ HasError(output)
        /\ "chunk" \in DOMAIN output.error[1]
        /\ output.error[1].chunk \in RaisedTasks
        /\ \A i \in RaisedTasks : output.error[1].chunk <= i

\* a run where a later chunk failed after an earlier one succeeded
C1_Witness ==
    /\ Reviewing /\ pc = "returned"
    /\ \E i, j \in 1..Len(tasks) :
        i < j /\ tasks[i].state = "done" /\ tasks[j].state = "raised"

(***************************************************************************)
(* C2: _split_into_chunks(text, W) of a text of N words returns ceil(N/W)  *)
(* chunks, each of 1..W words, only the last with fewer than W, and the    *)
(* chunks joined by single spaces split into the words of the text.        *)
(***************************************************************************)
C2_SplitIntoChunks ==
    (agent = "split" /\ pc = "returned") =>
        LET N == WordCount(diff_content)
            W == MAX_WORDS_PER_CHUNK
        IN  /\ Len(chunks) = CeilDiv(N, W)
            /\ \A k \in 1..Len(chunks) :
                  /\ WordCount(chunks[k]) >= 1
                  /\ WordCount(chunks[k]) <= W
                  /\ k < Len(chunks) => WordCount(chunks[k]) = W
            /\ StrSplit(SpaceJoin(chunks)) = StrSplit(diff_content)
            /\ Len(StrSplit(diff_content)) = N

\* a text whose whitespace the split does not keep, cut into several chunks
\* of which the last is short
C2_Witness ==
    /\ agent = "split" /\ pc = "returned"
    /\ Len(chunks) >= 2
    /\ WordCount(chunks[Len(chunks)]) < MAX_WORDS_PER_CHUNK
    /\ SpaceJoin(chunks) # diff_content

(***************************************************************************)
(* C3: when git succeeds with an empty diff, forward returns the result    *)
(* {"summary": "No changes found in the last commit."} without an error    *)
(* and no model call is ever issued.                                       *)
(***************************************************************************)
C3_EmptyDiffNoCall ==
    (Reviewing /\ git = "ok" /\ diff_content = <<>>) =>
        /\ pc = "returned"
        /\ output = AgentOutput(Some(NoChangesResult), None)
        /\ calls = <<>>

C3_Witness == Reviewing /\ git = "ok" /\ diff_content = <<>> /\ pc = "returned"

(***************************************************************************)
(* C4: a diff of exactly one chunk issues exactly one model call, with the *)
(* single-review prompt, and on success the result is that review under    *)
(* "content" and nothing else.                                             *)
(***************************************************************************)
C4_SingleChunkBypass ==
    (Reviewing /\ Len(chunks) = 1) =>
        /\ calls = <<single_prompt(diff_content)>>
        /\ tasks = <<>>
        /\ (pc = "returned" /\ output.error = None) =>
              /\ output.result # None
              /\ DOMAIN output.result[1] = {"content"}
              /\ \E r \in ReviewsOf(calls[1]) : output.result[1].content = r.text

\* a one-chunk diff of more than one word was reviewed
C4_Witness ==
    /\ Reviewing /\ Len(chunks) = 1 /\ pc = "returned"
    /\ output.error = None
    /\ WordCount(diff_content) > 1

(***************************************************************************)
(* C5: every output returned by either forward carries a result or an      *)
(* error, never both and never neither.                                    *)
(***************************************************************************)
C5_ResultXorError ==
    pc = "returned" => ((output.result = None) # (output.error = None))

(***************************************************************************)
(* C6: a missing git, a failing git command, a missing question and a      *)
(* raising model call (single, per chunk, consolidation, DocQA) all end in *)
(* a returned output with a non-empty error; none of them leaves forward   *)
(* as an exception, and no model call follows a git failure or a missing   *)
(* question.                                                               *)
(***************************************************************************)
ListedFailure ==
    \/ git \in {"FileNotFoundError", "CalledProcessError"}
    \/ agent = "DocQA" /\ ~Truthy(Question(request))
    \/ \E n \in 1..Len(responses) : responses[n] = "raise"

C6_FailuresBecomeErrors ==
    /\ ListedFailure =>
          /\ pc # "raised"
          /\ pc \in {"returned", "gather"}
          /\ pc = "returned" => /\ HasError(output)
                                /\ output.error[1].msg # ""
    /\ (\/ git \in {"FileNotFoundError", "CalledProcessError"}
        \/ agent = "DocQA" /\ ~Truthy(Question(request))) => calls = <<>>

\* the consolidation call raised and forward returned
C6_Witness ==
    /\ pc = "returned"
    /\ \E n \in 1..Len(calls) :
        calls[n].kind = "consolidation" /\ responses[n] = "raise"

(***************************************************************************)
(* C7: with a question and no payload text, a document source that is      *)
(* unsupported or unreachable (no file, a local or file:// path that       *)
(* cannot be read, an http(s) fetch that fails, an http(s) resource that   *)
(* is neither text/markdown nor PDF by extension or Content-Type) resolves *)
(* to the empty string, and forward returns the "No document provided"     *)
(* error without calling the model.                                        *)
(***************************************************************************)
Unreachable(file_uri, env) ==
    \/ file_uri = None
    \/ /\ file_uri # None
       /\ file_uri[1].scheme \notin {"http", "https"}
       /\ env.content = "missing"
    \/ /\ file_uri # None
       /\ file_uri[1].scheme \in {"http", "https"}
       /\ \/ env.fetch = "fail"
          \/ /\ file_uri[1].ext \notin {".pdf", ".txt", ".md", ".markdown"}
             /\ ~HasPdfType(env.content_type)
             /\ ~HasTextType(env.content_type)

NoPayloadText(r) ==
    /\ ~_get_payload_text(r.payload_texts).raised
    /\ _get_payload_text(r.payload_texts).text = EmptyStr

C7_UnreachableSourceIsNoDocument ==
    (/\ agent = "DocQA"
     /\ Truthy(Question(request))
     /\ NoPayloadText(request)
     /\ Unreachable(FilePath(request), request.env)) =>
        /\ document_text = EmptyStr
        /\ pc = "returned"
        /\ HasError(output)
        /\ output.error[1] = NoDocumentError
        /\ calls = <<>>

\* an http resource that was fetched and has bytes, but of no supported type
C7_Witness ==
    /\ agent = "DocQA" /\ pc = "returned"
    /\ Truthy(Question(request))
    /\ NoPayloadText(request)
    /\ FilePath(request) # None
    /\ FilePath(request)[1].scheme = "http"
    /\ request.env.fetch = "ok"
    /\ request.env.content = "utf8"
    /\ Unreachable(FilePath(request), request.env)

(***************************************************************************)
(* C8: the consolidation call is issued only when every chunk call has     *)
(* completed and none raised; when a chunk call raised, no consolidation   *)
(* call is ever issued and the output carries no summary of the chunks     *)
(* that did complete.                                                      *)
(***************************************************************************)
ConsolidationIssued == \E n \in 1..Len(calls) : calls[n].kind = "consolidation"

C8_ConsolidateAfterJoin ==
    Reviewing =>
        /\ ConsolidationIssued =>
              \A i \in 1..Len(tasks) : tasks[i].state = "done"
        /\ (pc = "returned" /\ RaisedTasks # {}) =>
              /\ output.result = None
              /\ HasError(output)
              /\ DOMAIN output.error[1] = {"msg", "chunk", "detail"}
              /\ output.error[1].detail = LLMException.msg

\* a chunk completed with a summary, a sibling raised later, forward returned
C8_Witness ==
    /\ Reviewing /\ pc = "returned"
    /\ Len(completed) >= 2
    /\ tasks[completed[1]].state = "done"
    /\ tasks[completed[Len(completed)]].state = "raised"

(***************************************************************************)
(* C9: a successful run over k > 1 chunks returns "parts" with k entries   *)
(* numbered 1..k in order, the summary of part i being the response to the *)
(* prompt built from chunk i whatever the completion order, and the        *)
(* consolidation prompt lists the same summaries in the same order.        *)
(***************************************************************************)
C9_PartsInChunkOrder ==
    (Reviewing /\ pc = "returned" /\ Len(chunks) > 1 /\ output.error = None) =>
        LET parts == output.result[1].parts
            k == Len(chunks)
        IN  /\ Len(parts) = k
            /\ \A i \in 1..k :
                  /\ parts[i].part = i
                  /\ parts[i].summary \in ReviewsOf(part_prompt(i, k, chunks[i]))
            /\ calls[Len(calls)].kind = "consolidation"
            /\ calls[Len(calls)].total = k
            /\ calls[Len(calls)].parts = parts

\* a successful multi-chunk run whose chunk calls completed out of order
C9_Witness ==
    /\ Reviewing /\ pc = "returned" /\ Len(chunks) > 1 /\ output.error = None
    /\ \E m \in 1..(Len(completed) - 1) : completed[m] > completed[m + 1]

(***************************************************************************)
(* C10: forward issues a model call only when the diff holds at least one  *)
(* word; a diff that splits into zero chunks leads to no model call.       *)
(***************************************************************************)
C10_NoCallWithoutWords ==
    (Reviewing /\ git = "ok" /\ WordCount(diff_content) = 0) => calls = <<>>

====
